---- MODULE Spec2Model ----
(***************************************************************************)
(* Model of the translation-pair search server (src/server.py): the tools  *)
(* search_similar_pairs and get_translation_pair, the helper               *)
(* make_database_request and the pure function detect_language.            *)
(*                                                                         *)
(* A tool call is a frame (request, pc, locals).  Neither tool contains a  *)
(* real suspension point, so one frame runs from its call to its return.   *)
(* The store is read-only: it is chosen in Init and never changes.         *)
(* Strings are sequences of code points; the error messages built with     *)
(* f-strings are tuples <<prefix, detail>>.  Records list their fields in   *)
(* the order TLC keeps them in.                                            *)
(***************************************************************************)
EXTENDS Integers, Sequences, FiniteSets, TLC

\* ------------------------------------------------------------------ bounds
\* Largest number of rows in the trans_agent table.
MaxRows == 2
\* Longest text given to detect_language in SpecDetect.
MaxLen == 3
\* sessions that may be left open
MaxLeaked == 1
\* requests that may wait for the event loop
MaxPending == 1

\* --------------------------------------------------------- program constants
\* `if not 1 <= top_k <= 20: top_k = min(max(top_k, 1), 20)`
TopKFloor == 1
TopKCeiling == 20
\* '一' and '鿿', the range counted as Chinese by detect_language.
CjkFirst == 19968
CjkLast == 40959

\* ------------------------------------------------------------ small values
None == "None"
NoRequest == [op |-> "none"]
NoResult == [none |-> TRUE]
NoCall == [request |-> NoRequest]
\* `.first()` found no row
NoRow == [none |-> TRUE]
\* english_embedding is nullable: a row may have no embedding.
NoEmbedding == <<>>

Min(a, b) == IF a < b THEN a ELSE b
Max(a, b) == IF a > b THEN a ELSE b

\* ------------------------------------------------------------- sample inputs
\* "insurance guidelines" and "保险条款", the queries of the test script.
InsuranceGuidelines ==
    <<105, 110, 115, 117, 114, 97, 110, 99, 101, 32,
      103, 117, 105, 100, 101, 108, 105, 110, 101, 115>>
BaoXianTiaoKuan == <<20445, 38505, 26465, 27454>>
UserInputs == {InsuranceGuidelines, BaoXianTiaoKuan}
TargetLanguages == {"chinese", "klingon"}
TopKs == {0, 1, 2, 3, 20, 21}
\* Code points around every boundary detect_language tests:
\* 'A', 'z', '[', U+00E9 (alphabetic, not ASCII), U+4DFF, U+4E00, U+9FFF, U+A000.
Chars == {65, 122, 91, 233, 19967, 19968, 40959, 40960}
\* Embedding vectors (dimension 2 instead of 1024; none is the zero vector,
\* for which the cosine distance is not a number).
StoredEmbeddings == {<<1, 0>>, <<2, 0>>, <<0, 1>>, NoEmbedding}
QueryEmbeddings == {<<1, 0>>, <<1, 1>>}

VARIABLES
    store,            \* the trans_agent table: a sequence of rows
    request,          \* the arguments of the running (or last) tool call
    pc,               \* where the call is
    top_k,            \* the local top_k of search_similar_pairs (reassigned)
    detected_lang,    \* the local detected_lang
    query_embedding,  \* the local query_embedding
    pairs,            \* the rows converted by make_database_request
    pair,             \* the row get_translation_pair found, NoRow if none
    exc,              \* the exception raised in the call, "none" if none
    result,           \* the value the tool returned
    sessions,         \* number of store sessions open
    prev,             \* the preceding completed call, when this call repeats it
    embed_calls,      \* requests this call sent to the embedding endpoint
    store_queries,    \* statements this call sent to the store
    pending           \* requests in flight that wait for the event loop

vars == <<store, request, pc, top_k, detected_lang, query_embedding, pairs,
          pair, exc, result, sessions, prev, embed_calls, store_queries,
          pending>>

\* ------------------------------------------------------------------- store
\* The columns class TransAgent of server.py maps (lines 38-46).
MappedColumns ==
    {"id", "gl_number", "row_number", "version", "effective_date",
     "english_text", "chinese_text", "english_embedding", "chinese_embedding"}

\* hasattr(row, name), for a row loaded through class TransAgent
hasattr(name) == name \in MappedColumns

\* A DateTime(timezone=True) value of column created_at
Timestamp == "datetime(2024, 1, 15, tzinfo=utc)"

\* str(value): the text of a timestamp, the four letters for None
str(value) ==
    IF value = None THEN "'None'" ELSE "2024-01-15 00:00:00+00:00"

\* The timestamp the table holds for row i: rows with an odd id have one, the
\* others have none.
CreatedAt(i) == IF i % 2 = 1 THEN Timestamp ELSE None

\* One row of table trans_agent; ids are assigned by the store, 1, 2, ... .
\* created_at is a column of the table (search_similar_tool.py line 40) that
\* class TransAgent of server.py does not map.
TransAgent(i, emb) ==
    [id |-> i,
     gl_number |-> <<"gl_number", i>>,
     row_number |-> <<"row_number", i>>,
     version |-> <<"version", i>>,
     effective_date |-> <<"effective_date", i>>,
     english_text |-> <<"english_text", i>>,
     chinese_text |-> <<"chinese_text", i>>,
     english_embedding |-> emb,
     created_at |-> CreatedAt(i)]

Stores ==
    UNION {
        {[i \in 1..n |-> TransAgent(i, embs[i])] :
            embs \in [1..n -> StoredEmbeddings]} : n \in 0..MaxRows}

\* ----------------------------------------------------------- detect_language
IsCjk(c) == CjkFirst <= c /\ c <= CjkLast
\* c.isascii() and c.isalpha()
IsAsciiAlpha(c) == c < 128 /\ ((65 <= c /\ c <= 90) \/ (97 <= c /\ c <= 122))

\* sum(1 for c in text if cond(c)), for the two conditions
RECURSIVE zh_chars(_)
zh_chars(text) ==
    IF text = <<>> THEN 0
    ELSE (IF IsCjk(Head(text)) THEN 1 ELSE 0) + zh_chars(Tail(text))

RECURSIVE en_chars(_)
en_chars(text) ==
    IF text = <<>> THEN 0
    ELSE (IF IsAsciiAlpha(Head(text)) THEN 1 ELSE 0) + en_chars(Tail(text))

detect_language_ge(text) ==
    IF zh_chars(text) >= en_chars(text) THEN "zh" ELSE "en"

detect_language(text) ==
    IF zh_chars(text) > en_chars(text) THEN "zh" ELSE "en"

\* ------------------------------------------------------------------ top_k
clamp_off_by_one(k) ==
    IF ~(TopKFloor <= k /\ k < TopKCeiling)
    THEN Min(Max(k, TopKFloor), TopKCeiling - 1) ELSE k

\* lines 161-162: the value top_k has after the validation
clamp_top_k(k) ==
    IF ~(TopKFloor <= k /\ k <= TopKCeiling)
    THEN Min(Max(k, TopKFloor), TopKCeiling) ELSE k

\* ------------------------------------------------------- cosine distance <=>
Dot(a, b) == a[1] * b[1] + a[2] * b[2]
SignedSquare(x) == IF x < 0 THEN -(x * x) ELSE x * x

\* cosine_distance(a, q) < cosine_distance(b, q), that is cos(a, q) > cos(b, q),
\* compared without square roots: sgn(a.q)(a.q)^2 |b|^2 > sgn(b.q)(b.q)^2 |a|^2.
CloserEmbedding(a, b, q) ==
    SignedSquare(Dot(a, q)) * Dot(b, b) > SignedSquare(Dot(b, q)) * Dot(a, a)

\* Row ra sorts strictly before row rb under ORDER BY english_embedding <=> q
\* (ascending, rows without embedding last).
SortsBefore(ra, rb, q) ==
    /\ ra.english_embedding # NoEmbedding
    /\ \/ rb.english_embedding = NoEmbedding
       \/ CloserEmbedding(ra.english_embedding, rb.english_embedding, q)

Permutation(n) == {f \in [1..n -> 1..n] : \A i, j \in 1..n : f[i] = f[j] => i = j}

OrderByDescending(q) ==
    {f \in Permutation(Len(store)) :
        \A i, j \in 1..Len(store) :
            i < j => ~SortsBefore(store[f[i]], store[f[j]], q)}

\* The orders in which `.order_by(english_embedding.op('<=>')(q))` may list the
\* table: every order with no row before a strictly closer one.  The code
\* names no second sort key, so rows at equal distance come in any order.
OrderBy(q) ==
    {f \in Permutation(Len(store)) :
        \A i, j \in 1..Len(store) :
            i < j => ~SortsBefore(store[f[j]], store[f[i]], q)}

LimitOffByOne(f, k) == [i \in 1..Min(k + 1, Len(store)) |-> store[f[i]]]

\* `.limit(top_k).all()` of the ordered table
Limit(f, k) == [i \in 1..Min(k, Len(store)) |-> store[f[i]]]

\* lines 110-122: the dictionary built from a row
ToPair(row) ==
    [id |-> row.id,
     gl_number |-> row.gl_number,
     row_number |-> row.row_number,
     version |-> row.version,
     effective_date |-> row.effective_date,
     english_text |-> row.english_text,
     chinese_text |-> row.chinese_text,
     context |-> row.english_text,
     metadata |->
        [created_at |->
            IF hasattr("created_at") THEN str(row.created_at) ELSE None]]

\* -------------------------------------------------------------------- Init
Init ==
    /\ store \in Stores
    /\ request = NoRequest
    /\ pc = "idle"
    /\ top_k = 0
    /\ detected_lang = None
    /\ query_embedding = NoEmbedding
    /\ pairs = <<>>
    /\ pair = NoRow
    /\ exc = "none"
    /\ result = NoResult
    /\ sessions = 0
    /\ prev = NoCall
    /\ embed_calls = 0
    /\ store_queries = 0
    /\ pending = 0

\* The completed call, kept when the next call repeats its request.
Completed ==
    [result |-> result, request |-> request,
     query_embedding |-> query_embedding, pair |-> pair, exc |-> exc]

\* A tool is called: the frame starts with fresh locals.  The event loop has
\* one thread and the tools never yield it, so a call starts only when no other
\* call is running; it takes a waiting request if there is one.
Enter(req, first) ==
    /\ pc \in {"idle", "done"}
    /\ prev' = IF pc = "done" /\ req = request THEN Completed ELSE NoCall
    /\ request' = req
    /\ pc' = first
    /\ top_k' = IF req.op = "search_similar_pairs" THEN req.top_k ELSE 0
    /\ detected_lang' = None
    /\ query_embedding' = NoEmbedding
    /\ pairs' = <<>>
    /\ pair' = NoRow
    /\ exc' = "none"
    /\ result' = NoResult
    /\ embed_calls' = 0
    /\ store_queries' = 0
    /\ pending' = IF pending > 0 THEN pending - 1 ELSE 0
    /\ UNCHANGED <<store, sessions>>

\* ------------------------------------------------------ search_similar_pairs
CallSearch ==
    \E u \in UserInputs, t \in TargetLanguages, k \in TopKs :
        Enter([op |-> "search_similar_pairs", top_k |-> k, user_input |-> u,
               target_language |-> t], "validate")

\* Where an exception raised at a place of search_similar_pairs goes: all of
\* the body is inside `try: ... except Exception`, and an exception of the
\* query passes through the `finally: db.close()` of make_database_request.
SearchHandlerMissesSession(at) ==
    CASE at = "embed" -> "except"
      [] at = "session" -> "escaped"
      [] at = "query" -> "close"

SearchHandlerGoesOnWithoutVector(at) ==
    CASE at = "embed" -> "session"
      [] at = "session" -> "except"
      [] at = "query" -> "close"

SearchHandler(at) ==
    CASE at = "embed" -> "except"
      [] at = "session" -> "except"
      [] at = "query" -> "close"

ValidateRejects ==
    /\ pc = "validate"
    /\ IF TopKFloor <= top_k /\ top_k <= TopKCeiling
       THEN /\ pc' = "detect"
            /\ UNCHANGED exc
       ELSE /\ pc' = "except"
            /\ exc' = "ValueError"
    /\ UNCHANGED <<store, request, top_k, detected_lang, query_embedding, pairs,
                   pair, result, sessions, prev,
                   embed_calls, store_queries, pending>>

\* lines 161-162
Validate ==
    /\ pc = "validate"
    /\ top_k' = clamp_top_k(top_k)
    /\ pc' = "detect"
    /\ UNCHANGED <<store, request, detected_lang, query_embedding, pairs, pair,
                   exc, result, sessions, prev,
                   embed_calls, store_queries, pending>>

\* line 165
Detect ==
    /\ pc = "detect"
    /\ detected_lang' = detect_language(request.user_input)
    /\ pc' = "embed"
    /\ UNCHANGED <<store, request, top_k, query_embedding, pairs, pair, exc,
                   result, sessions, prev,
                   embed_calls, store_queries, pending>>

EmbedRetriesOnce ==
    /\ pc = "embed"
    /\ \/ \E v \in QueryEmbeddings :
            /\ query_embedding' = v
            /\ pc' = "session"
            /\ UNCHANGED exc
       \/ /\ embed_calls = 0
          /\ pc' = "embed"
          /\ UNCHANGED <<exc, query_embedding>>
       \/ /\ embed_calls > 0
          /\ exc' = "EmbeddingError"
          /\ pc' = SearchHandler("embed")
          /\ UNCHANGED query_embedding
    /\ embed_calls' = embed_calls + 1
    /\ UNCHANGED <<store, request, top_k, detected_lang, pairs, pair, result,
                   sessions, prev, store_queries, pending>>

\* line 168: embeddings.embed_query(user_input) returns a vector, or raises
\* (transport error, bad status, malformed payload).
Embed ==
    /\ pc = "embed"
    /\ \/ \E v \in QueryEmbeddings :
            /\ query_embedding' = v
            /\ pc' = "session"
            /\ UNCHANGED exc
       \/ /\ exc' = "EmbeddingError"
          /\ pc' = SearchHandler("embed")
          /\ UNCHANGED query_embedding
    /\ embed_calls' = embed_calls + 1
    /\ UNCHANGED <<store, request, top_k, detected_lang, pairs, pair, result,
                   sessions, prev,
                   store_queries, pending>>

\* line 97: db = SessionLocal()
OpenSession ==
    /\ pc = "session"
    /\ \/ /\ sessions' = sessions + 1
          /\ pc' = "query"
          /\ UNCHANGED exc
       \/ /\ exc' = "SessionError"
          /\ pc' = SearchHandler("session")
          /\ UNCHANGED sessions
    /\ UNCHANGED <<store, request, top_k, detected_lang, query_embedding, pairs,
                   pair, result, prev,
                   embed_calls, store_queries, pending>>

\* lines 100-125: the ranked query and the conversion of its rows
Query ==
    /\ pc = "query"
    /\ \/ \E f \in OrderBy(query_embedding) :
            LET retrieved == Limit(f, top_k) IN
            /\ pairs' = [i \in 1..Len(retrieved) |-> ToPair(retrieved[i])]
            /\ pc' = "close"
            /\ UNCHANGED exc
       \/ /\ exc' = "QueryError"
          /\ pc' = SearchHandler("query")
          /\ UNCHANGED pairs
    /\ store_queries' = store_queries + 1
    /\ UNCHANGED <<store, request, top_k, detected_lang, query_embedding, pair,
                   result, sessions, prev,
                   embed_calls, pending>>

\* lines 127-128: finally: db.close(); then the return or the exception goes on
Close ==
    /\ pc = "close"
    /\ sessions' = sessions - 1
    /\ pc' = IF exc = "none" THEN "return" ELSE "except"
    /\ UNCHANGED <<store, request, top_k, detected_lang, query_embedding, pairs,
                   pair, exc, result, prev,
                   embed_calls, store_queries, pending>>

ReturnCountsTopK ==
    /\ pc = "return"
    /\ result' = [pairs |-> pairs,
                  target_language |-> request.target_language,
                  total_found |-> top_k,
                  query_language |-> detected_lang]
    /\ pc' = "done"
    /\ UNCHANGED <<store, request, top_k, detected_lang, query_embedding, pairs,
                   pair, exc, sessions, prev,
                   embed_calls, store_queries, pending>>

ReturnDefaultTarget ==
    /\ pc = "return"
    /\ result' = [pairs |-> pairs,
                  target_language |-> "chinese",
                  total_found |-> Len(pairs),
                  query_language |-> detected_lang]
    /\ pc' = "done"
    /\ UNCHANGED <<store, request, top_k, detected_lang, query_embedding, pairs,
                   pair, exc, sessions, prev,
                   embed_calls, store_queries, pending>>

\* lines 173-178
Return ==
    /\ pc = "return"
    /\ result' = [pairs |-> pairs,
                  target_language |-> request.target_language,
                  total_found |-> Len(pairs),
                  query_language |-> detected_lang]
    /\ pc' = "done"
    /\ UNCHANGED <<store, request, top_k, detected_lang, query_embedding, pairs,
                   pair, exc, sessions, prev,
                   embed_calls, store_queries, pending>>

ExceptKeepsLanguage ==
    /\ pc = "except"
    /\ result' = [pairs |-> <<>>,
                  target_language |-> request.target_language,
                  total_found |-> 0,
                  query_language |-> detected_lang,
                  error |-> <<"Error searching for similar pairs: ", exc>>]
    /\ pc' = "done"
    /\ UNCHANGED <<store, request, top_k, detected_lang, query_embedding, pairs,
                   pair, exc, sessions, prev,
                   embed_calls, store_queries, pending>>

\* lines 180-187
Except ==
    /\ pc = "except"
    /\ result' = [pairs |-> <<>>,
                  target_language |-> request.target_language,
                  total_found |-> 0,
                  query_language |-> "unknown",
                  error |-> <<"Error searching for similar pairs: ", exc>>]
    /\ pc' = "done"
    /\ UNCHANGED <<store, request, top_k, detected_lang, query_embedding, pairs,
                   pair, exc, sessions, prev,
                   embed_calls, store_queries, pending>>

\* ------------------------------------------------------ get_translation_pair
PairIds == 0..(MaxRows + 1)

CallGet ==
    \E id \in PairIds :
        Enter([op |-> "get_translation_pair", pair_id |-> id], "get_session")

\* Where an exception raised at a place of get_translation_pair goes: the
\* body is inside `try: ... except Exception`, the query inside the inner
\* `try: ... finally: db.close()`.
GetHandlerMissesQuery(at) ==
    CASE at = "session" -> "get_except"
      [] at = "query" -> "escaped"

GetHandler(at) ==
    CASE at = "session" -> "get_except"
      [] at = "query" -> "get_close"

\* line 201: db = SessionLocal()
GetOpenSession ==
    /\ pc = "get_session"
    /\ \/ /\ sessions' = sessions + 1
          /\ pc' = "get_query"
          /\ UNCHANGED exc
       \/ /\ exc' = "SessionError"
          /\ pc' = GetHandler("session")
          /\ UNCHANGED sessions
    /\ UNCHANGED <<store, request, top_k, detected_lang, query_embedding, pairs,
                   pair, result, prev,
                   embed_calls, store_queries, pending>>

\* line 203: db.query(TransAgent).filter(TransAgent.id == pair_id).first()
First(id) ==
    IF \E i \in 1..Len(store) : store[i].id = id
    THEN store[CHOOSE i \in 1..Len(store) : store[i].id = id]
    ELSE NoRow

\* lines 203-216: the lookup; the value to return is built before `finally`
GetQuery ==
    /\ pc = "get_query"
    /\ \/ /\ pair' = First(request.pair_id)
          /\ pc' = "get_close"
          /\ UNCHANGED exc
       \/ /\ exc' = "QueryError"
          /\ pc' = GetHandler("query")
          /\ UNCHANGED pair
    /\ store_queries' = store_queries + 1
    /\ UNCHANGED <<store, request, top_k, detected_lang, query_embedding, pairs,
                   result, sessions, prev,
                   embed_calls, pending>>

\* lines 217-218: finally: db.close()
GetClose ==
    /\ pc = "get_close"
    /\ sessions' = sessions - 1
    /\ pc' = IF exc = "none" THEN "get_return" ELSE "get_except"
    /\ UNCHANGED <<store, request, top_k, detected_lang, query_embedding, pairs,
                   pair, exc, result, prev,
                   embed_calls, store_queries, pending>>

\* lines 204-216: `if not pair` returns the not-found dictionary, otherwise
\* the pair's fields are returned.
GetReturn ==
    /\ pc = "get_return"
    /\ result' =
         IF pair = NoRow
         THEN [error |-> <<"Translation pair with ID ", request.pair_id,
                           " not found">>]
         ELSE [id |-> pair.id,
               gl_number |-> pair.gl_number,
               row_number |-> pair.row_number,
               version |-> pair.version,
               effective_date |-> pair.effective_date,
               english_text |-> pair.english_text,
               chinese_text |-> pair.chinese_text,
               created_at |->
                    IF hasattr("created_at") THEN str(pair.created_at)
                    ELSE None]
    /\ pc' = "done"
    /\ UNCHANGED <<store, request, top_k, detected_lang, query_embedding, pairs,
                   pair, exc, sessions, prev,
                   embed_calls, store_queries, pending>>

\* lines 219-220
GetExcept ==
    /\ pc = "get_except"
    /\ result' = [error |-> <<"Error retrieving translation pair: ", exc>>]
    /\ pc' = "done"
    /\ UNCHANGED <<store, request, top_k, detected_lang, query_embedding, pairs,
                   pair, exc, sessions, prev,
                   embed_calls, store_queries, pending>>

get_translation_pair ==
    \/ GetOpenSession
    \/ GetQuery
    \/ GetClose
    \/ GetReturn
    \/ GetExcept

\* ------------------------------------------------- health_check (server.py)
\* lines 222-223.  A session left open stays open: calls are taken while fewer
\* than MaxLeaked sessions are open.
CallHealth ==
    /\ sessions < MaxLeaked
    /\ Enter([op |-> "health_check", module |-> "server"], "health_session")

\* line 228: db = SessionLocal()
HealthOpenSession ==
    /\ pc = "health_session"
    /\ \/ /\ sessions' = sessions + 1
          /\ pc' = "health_execute"
          /\ UNCHANGED exc
       \/ /\ exc' = "SessionError"
          /\ pc' = "health_except"
          /\ UNCHANGED sessions
    /\ UNCHANGED <<store, request, top_k, detected_lang, query_embedding, pairs,
                   pair, result, prev,
                   embed_calls, store_queries, pending>>

\* line 229: db.execute(text("SELECT 1")).  The statement is inside `try` with
\* no `finally`: when it raises, control goes to `except` on line 232 and
\* line 230 is skipped.
HealthExecute ==
    /\ pc = "health_execute"
    /\ \/ /\ pc' = "health_close"
          /\ UNCHANGED exc
       \/ /\ exc' = "QueryError"
          /\ pc' = "health_except"
    /\ store_queries' = store_queries + 1
    /\ UNCHANGED <<store, request, top_k, detected_lang, query_embedding, pairs,
                   pair, result, sessions, prev,
                   embed_calls, pending>>

\* line 230: db.close()
HealthClose ==
    /\ pc = "health_close"
    /\ sessions' = sessions - 1
    /\ pc' = "health_return"
    /\ UNCHANGED <<store, request, top_k, detected_lang, query_embedding, pairs,
                   pair, exc, result, prev,
                   embed_calls, store_queries, pending>>

\* line 231
HealthReturn ==
    /\ pc = "health_return"
    /\ result' = [status |-> "healthy", service |-> "search_similar_tool",
                  database |-> "connected"]
    /\ pc' = "done"
    /\ UNCHANGED <<store, request, top_k, detected_lang, query_embedding, pairs,
                   pair, exc, sessions, prev,
                   embed_calls, store_queries, pending>>

\* lines 232-233
HealthExcept ==
    /\ pc = "health_except"
    /\ result' = [error |-> exc, status |-> "unhealthy",
                  service |-> "search_similar_tool"]
    /\ pc' = "done"
    /\ UNCHANGED <<store, request, top_k, detected_lang, query_embedding, pairs,
                   pair, exc, sessions, prev,
                   embed_calls, store_queries, pending>>

\* ---------------------------------------- health_check (search_similar_tool.py)
\* search_similar_tool.py lines 192-193
CallToolHealth ==
    Enter([op |-> "health_check", module |-> "search_similar_tool"],
          "tool_health_return")

\* search_similar_tool.py line 195: the only statement of the body
ToolHealthReturn ==
    /\ pc = "tool_health_return"
    /\ result' = [status |-> "healthy", service |-> "search_similar_tool"]
    /\ pc' = "done"
    /\ UNCHANGED <<store, request, top_k, detected_lang, query_embedding, pairs,
                   pair, exc, sessions, prev,
                   embed_calls, store_queries, pending>>

\* ------------------------------------------------ get_translation_resource
\* pair_id arrives as text: "1", "3", "x"
ResourcePairIds == {<<49>>, <<51>>, <<120>>}

\* The texts int() accepts among those of ASCII digits and letters
IsDecimal(s) == Len(s) > 0 /\ \A i \in 1..Len(s) : 48 <= s[i] /\ s[i] <= 57

\* int(s) for a text of decimal digits
RECURSIVE int(_)
int(s) ==
    IF Len(s) = 0 THEN 0
    ELSE 10 * int(SubSeq(s, 1, Len(s) - 1)) + (s[Len(s)] - 48)

\* lines 130-143
format_search_result(p) ==
    <<"Translation Pair #", p.id, "GL Number: ", p.gl_number,
      "Row Number: ", p.row_number, "Version: ", p.version,
      "Effective Date: ", p.effective_date, "English Text: ", p.english_text,
      "Chinese Text: ", p.chinese_text, "Created At: ", p.metadata.created_at>>

\* lines 255-256
CallTranslationResource ==
    \E s \in ResourcePairIds :
        Enter([op |-> "get_translation_resource", pair_id |-> s], "tr_session")

\* line 259: db = SessionLocal(), outside the inner `try`
TrOpenSession ==
    /\ pc = "tr_session"
    /\ \/ /\ sessions' = sessions + 1
          /\ pc' = "tr_query"
          /\ UNCHANGED exc
       \/ /\ exc' = "SessionError"
          /\ pc' = "tr_except"
          /\ UNCHANGED sessions
    /\ UNCHANGED <<store, request, top_k, detected_lang, query_embedding, pairs,
                   pair, result, prev, embed_calls, store_queries, pending>>

\* line 261: int(pair_id) raises ValueError before any statement is sent;
\* otherwise the lookup runs.  Both are inside the inner `try`.
TrQuery ==
    /\ pc = "tr_query"
    /\ IF ~IsDecimal(request.pair_id)
       THEN /\ exc' = "ValueError"
            /\ pc' = "tr_close"
            /\ UNCHANGED <<pair, store_queries>>
       ELSE /\ store_queries' = store_queries + 1
            /\ \/ /\ pair' = First(int(request.pair_id))
                  /\ pc' = "tr_close"
                  /\ UNCHANGED exc
               \/ /\ exc' = "QueryError"
                  /\ pc' = "tr_close"
                  /\ UNCHANGED pair
    /\ UNCHANGED <<store, request, top_k, detected_lang, query_embedding, pairs,
                   result, sessions, prev, embed_calls, pending>>

\* lines 277-278: finally: db.close()
TrClose ==
    /\ pc = "tr_close"
    /\ sessions' = sessions - 1
    /\ pc' = IF exc = "none" THEN "tr_return" ELSE "tr_except"
    /\ UNCHANGED <<store, request, top_k, detected_lang, query_embedding, pairs,
                   pair, exc, result, prev, embed_calls, store_queries, pending>>

\* lines 262-276
TrReturn ==
    /\ pc = "tr_return"
    /\ result' =
         IF pair = NoRow
         THEN [text |-> <<"Translation pair with ID ", request.pair_id,
                          " not found">>]
         ELSE [text |->
                format_search_result(
                    [id |-> pair.id,
                     gl_number |-> pair.gl_number,
                     row_number |-> pair.row_number,
                     version |-> pair.version,
                     effective_date |-> pair.effective_date,
                     english_text |-> pair.english_text,
                     chinese_text |-> pair.chinese_text,
                     metadata |->
                        [created_at |->
                            IF hasattr("created_at") THEN str(pair.created_at)
                            ELSE None]])]
    /\ pc' = "done"
    /\ UNCHANGED <<store, request, top_k, detected_lang, query_embedding, pairs,
                   pair, exc, sessions, prev, embed_calls, store_queries, pending>>

\* lines 279-280
TrExcept ==
    /\ pc = "tr_except"
    /\ result' = [text |-> <<"Error retrieving translation pair: ", exc>>]
    /\ pc' = "done"
    /\ UNCHANGED <<store, request, top_k, detected_lang, query_embedding, pairs,
                   pair, exc, sessions, prev, embed_calls, store_queries, pending>>

\* --------------------------------------------- get_search_results_resource
\* line 296: .limit(5)
ResourceLimit == 5

\* lines 282-283
CallSearchResource ==
    \E q \in UserInputs :
        Enter([op |-> "get_search_results_resource", query |-> q], "sr_detect")

\* line 288
SrDetect ==
    /\ pc = "sr_detect"
    /\ detected_lang' = detect_language(request.query)
    /\ pc' = "sr_embed"
    /\ UNCHANGED <<store, request, top_k, query_embedding, pairs, pair,
                   exc, result, sessions, prev, embed_calls, store_queries, pending>>

\* line 289: before any session is opened
SrEmbed ==
    /\ pc = "sr_embed"
    /\ \/ \E v \in QueryEmbeddings :
            /\ query_embedding' = v
            /\ pc' = "sr_session"
            /\ UNCHANGED exc
       \/ /\ exc' = "EmbeddingError"
          /\ pc' = "sr_except"
          /\ UNCHANGED query_embedding
    /\ embed_calls' = embed_calls + 1
    /\ UNCHANGED <<store, request, top_k, detected_lang, pairs, pair,
                   result, sessions, prev, store_queries, pending>>

\* line 291: db = SessionLocal(), outside the inner `try`
SrOpenSession ==
    /\ pc = "sr_session"
    /\ \/ /\ sessions' = sessions + 1
          /\ pc' = "sr_query"
          /\ UNCHANGED exc
       \/ /\ exc' = "SessionError"
          /\ pc' = "sr_except"
          /\ UNCHANGED sessions
    /\ UNCHANGED <<store, request, top_k, detected_lang, query_embedding, pairs,
                   pair, result, prev, embed_calls, store_queries, pending>>

\* lines 293-298: the ranked query, inside the inner `try`
SrQuery ==
    /\ pc = "sr_query"
    /\ \/ \E f \in OrderBy(query_embedding) :
            /\ pairs' = Limit(f, ResourceLimit)
            /\ pc' = "sr_close"
            /\ UNCHANGED exc
       \/ /\ exc' = "QueryError"
          /\ pc' = "sr_close"
          /\ UNCHANGED pairs
    /\ store_queries' = store_queries + 1
    /\ UNCHANGED <<store, request, top_k, detected_lang, query_embedding, pair,
                   result, sessions, prev, embed_calls, pending>>

\* lines 314-315: finally: db.close()
SrClose ==
    /\ pc = "sr_close"
    /\ sessions' = sessions - 1
    /\ pc' = IF exc = "none" THEN "sr_return" ELSE "sr_except"
    /\ UNCHANGED <<store, request, top_k, detected_lang, query_embedding, pairs,
                   pair, exc, result, prev, embed_calls, store_queries, pending>>

\* lines 300-313: the text built from the rows (every stored gl_number is
\* truthy, so `row.gl_number or 'N/A'` is the gl_number)
SrReturn ==
    /\ pc = "sr_return"
    /\ result' =
         IF pairs = <<>>
         THEN [text |-> <<"No search results found for: '", request.query, "'">>]
         ELSE [text |->
                <<"Search Results for: '", request.query,
                  "Query Language: ", detected_lang,
                  "Total Found: ", Len(pairs),
                  [i \in 1..Len(pairs) |->
                     <<i, "Translation Pair #", pairs[i].id,
                       "English: ", pairs[i].english_text,
                       "Chinese: ", pairs[i].chinese_text,
                       "GL Number: ", pairs[i].gl_number>>]>>]
    /\ pc' = "done"
    /\ UNCHANGED <<store, request, top_k, detected_lang, query_embedding, pairs,
                   pair, exc, sessions, prev, embed_calls, store_queries, pending>>

\* lines 317-318
SrExcept ==
    /\ pc = "sr_except"
    /\ result' = [text |-> <<"Error performing search: ", exc>>]
    /\ pc' = "done"
    /\ UNCHANGED <<store, request, top_k, detected_lang, query_embedding, pairs,
                   pair, exc, sessions, prev, embed_calls, store_queries, pending>>

\* ------------------------------------------------------------ specifications
Next ==
    \/ CallSearch
    \/ CallGet
    \/ Validate
    \/ Detect
    \/ Embed
    \/ OpenSession
    \/ Query
    \/ Close
    \/ Return
    \/ Except
    \/ GetOpenSession
    \/ GetQuery
    \/ GetClose
    \/ GetReturn
    \/ GetExcept

Spec == Init /\ [][Next]_vars

\* A request reaches the server while it runs (line 322: mcp.run): it waits
\* for the event loop until a call takes it.
Arrive ==
    /\ pending < MaxPending
    /\ pending' = pending + 1
    /\ UNCHANGED <<store, request, pc, top_k, detected_lang, query_embedding,
                   pairs, pair, exc, result, sessions, prev, embed_calls,
                   store_queries>>

\* The whole service: the tools and resources of server.py, and the
\* health_check of search_similar_tool.py.
NextServer ==
    \/ Next
    \/ Arrive
    \/ CallHealth
    \/ HealthOpenSession
    \/ HealthExecute
    \/ HealthClose
    \/ HealthReturn
    \/ HealthExcept
    \/ CallToolHealth
    \/ ToolHealthReturn
    \/ CallTranslationResource
    \/ TrOpenSession
    \/ TrQuery
    \/ TrClose
    \/ TrReturn
    \/ TrExcept
    \/ CallSearchResource
    \/ SrDetect
    \/ SrEmbed
    \/ SrOpenSession
    \/ SrQuery
    \/ SrClose
    \/ SrReturn
    \/ SrExcept

SpecServer == Init /\ [][NextServer]_vars

\* detect_language alone: search_similar_pairs stands at line 165 with the
\* default top_k and any text of at most MaxLen code points of Chars.
Texts == UNION {[1..n -> Chars] : n \in 0..MaxLen}

InitDetect ==
    /\ store = <<>>
    /\ \E u \in Texts :
        request = [op |-> "search_similar_pairs", top_k |-> 5,
                   user_input |-> u, target_language |-> "chinese"]
    /\ pc = "detect"
    /\ top_k = 5
    /\ detected_lang = None
    /\ query_embedding = NoEmbedding
    /\ pairs = <<>>
    /\ pair = NoRow
    /\ exc = "none"
    /\ result = NoResult
    /\ sessions = 0
    /\ prev = NoCall
    /\ embed_calls = 0
    /\ store_queries = 0
    /\ pending = 0

NextDetect == Detect

SpecDetect == InitDetect /\ [][NextDetect]_vars

\* ------------------------------------------------------------------ claims
IsSearch == request.op = "search_similar_pairs"
IsGet == request.op = "get_translation_pair"
SearchDone == pc = "done" /\ IsSearch
GetDone == pc = "done" /\ IsGet
IsError(r) == "error" \in DOMAIN r
Failures == {"EmbeddingError", "SessionError", "QueryError"}

\* The clamped value, case by case.
Clamped(k) == IF k < 1 THEN 1 ELSE IF k > 20 THEN 20 ELSE k

\* The two counts of detect_language, as sizes of sets of positions.
CjkCount(text) ==
    Cardinality({i \in 1..Len(text) : text[i] \in 19968..40959})
LatinCount(text) ==
    Cardinality({i \in 1..Len(text) : text[i] \in (65..90) \cup (97..122)})

RowOf(id) == store[CHOOSE i \in 1..Len(store) : store[i].id = id]

\* C1: every response of search_similar_pairs, success or error, has
\* total_found equal to the length of its pairs sequence.
C1_TotalFoundIsLength ==
    SearchDone => result.total_found = Len(result.pairs)

C1_Witness ==
    SearchDone /\ ~IsError(result) /\ Len(result.pairs) = 2 /\ request.top_k = 21

\* C2: the k handed to the store query is top_k clamped to [1, 20] (below 1
\* gives 1, above 20 gives 20, inside the range unchanged), and a response is
\* the error variant only after a failure, never because of top_k.
C2_TopKClamped ==
    /\ (IsSearch /\ pc \notin {"validate", "get_session"})
            => top_k = Clamped(request.top_k)
    /\ (SearchDone /\ IsError(result)) => exc \in Failures

C2_Witness ==
    IsSearch /\ pc = "query" /\ request.top_k = 21 /\ top_k = 20

\* C3: when the embedding call, the session or the store query fails, the
\* response is the error variant: an error message, query_language "unknown",
\* total_found 0, no pairs, and the request's target_language.
C3_FailureGivesErrorVariant ==
    (SearchDone /\ exc \in Failures) =>
        /\ IsError(result)
        /\ result.query_language = "unknown"
        /\ result.total_found = 0
        /\ result.pairs = <<>>
        /\ result.target_language = request.target_language

C3_Witness ==
    /\ SearchDone
    /\ exc = "QueryError"
    /\ request.target_language = "klingon"
    /\ detected_lang = "zh"

\* C4: no failure escapes search_similar_pairs or get_translation_pair: a call
\* that has started can always take its next step until it has returned, no
\* exception leaves the tool, and a call in which something failed returns an
\* error response.
C4_NoFailureEscapes ==
    /\ pc # "escaped"
    /\ pc \notin {"idle", "done"} => ENABLED Next
    /\ pc = "done" => result # NoResult
    /\ (pc = "done" /\ exc # "none") => IsError(result)

C4_Witness ==
    GetDone /\ exc = "SessionError" /\ IsError(result)

\* C5: the result of get_translation_pair for an id no row has differs in
\* shape (its set of keys) from the result it gives when the store access
\* fails.
C5_NotFoundDistinctFromFailure ==
    (/\ GetDone
     /\ prev # NoCall
     /\ exc = "none"
     /\ pair = NoRow
     /\ prev.exc \in Failures)
        => DOMAIN result # DOMAIN prev.result

\* C6: a successful search returns at most the clamped k pairs, fewer than k
\* only when the store holds fewer than k rows; on an empty store it returns
\* the success variant with no pairs, total_found 0 and the detected language.
C6_AtMostKPairs ==
    /\ (SearchDone /\ ~IsError(result)) =>
        /\ Len(result.pairs) <= Clamped(request.top_k)
        /\ Len(result.pairs) < Clamped(request.top_k)
                => Len(store) < Clamped(request.top_k)
    /\ (SearchDone /\ exc = "none" /\ store = <<>>) =>
        /\ ~IsError(result)
        /\ result.pairs = <<>>
        /\ result.total_found = 0
        /\ result.query_language = detected_lang
        /\ detected_lang \in {"zh", "en"}

C6_Witness ==
    /\ SearchDone
    /\ ~IsError(result)
    /\ request.top_k = 1
    /\ Len(store) = 2
    /\ Len(result.pairs) = 1

\* C7: the pairs of a successful search on a non-empty store are in
\* non-decreasing order of cosine distance to the query vector, and no row left
\* out is strictly closer to the query vector than a row in the response.
C7_SortedByDistance ==
    (SearchDone /\ ~IsError(result) /\ store # <<>>) =>
        LET ps == result.pairs
            in_ids == {ps[i].id : i \in 1..Len(ps)}
        IN  /\ \A i, j \in 1..Len(ps) :
                i < j => ~SortsBefore(RowOf(ps[j].id), RowOf(ps[i].id),
                                      query_embedding)
            /\ \A i \in 1..Len(ps), r \in 1..Len(store) :
                store[r].id \notin in_ids
                    => ~SortsBefore(store[r], RowOf(ps[i].id), query_embedding)

C7_Witness ==
    /\ SearchDone
    /\ ~IsError(result)
    /\ Len(store) = 2
    /\ Len(result.pairs) = 1
    /\ \E r \in 1..Len(store) :
        /\ store[r].id # result.pairs[1].id
        /\ store[r].english_embedding # NoEmbedding
        /\ SortsBefore(RowOf(result.pairs[1].id), store[r], query_embedding)

\* C8: detect_language answers "zh" exactly when the text has strictly more
\* characters in U+4E00..U+9FFF than ASCII letters, and "en" otherwise (ties,
\* the empty text, texts with neither kind).
C8_DetectLanguage ==
    (IsSearch /\ pc = "embed") =>
        /\ detected_lang \in {"zh", "en"}
        /\ detected_lang = "zh" <=>
            CjkCount(request.user_input) > LatinCount(request.user_input)

C8_Witness ==
    /\ IsSearch
    /\ pc = "embed"
    /\ CjkCount(request.user_input) = 1
    /\ LatinCount(request.user_input) = 1
    /\ detected_lang = "en"

\* C9: a search repeated with the same request, the store unchanged and the
\* embedding service returning the same vector returns the same pairs in the
\* same order, also when rows are at equal distance from the query vector.
C9_RepeatedSearchSamePairs ==
    (/\ SearchDone
     /\ prev # NoCall
     /\ exc = "none"
     /\ prev.exc = "none"
     /\ prev.query_embedding = query_embedding)
        => result.pairs = prev.result.pairs

\* C10: a successful search reports the language detect_language finds in the
\* raw user_input and echoes the request's target_language; "insurance
\* guidelines" with target "chinese" and top_k 3 gives "en", "chinese" and at
\* most 3 pairs.
C10_LanguagesReported ==
    (SearchDone /\ ~IsError(result)) =>
        /\ result.query_language =
            (IF CjkCount(request.user_input) > LatinCount(request.user_input)
             THEN "zh" ELSE "en")
        /\ result.target_language = request.target_language
        /\ (/\ request.user_input = InsuranceGuidelines
            /\ request.target_language = "chinese"
            /\ request.top_k = 3)
                => /\ result.query_language = "en"
                   /\ result.target_language = "chinese"
                   /\ result.total_found <= 3

C10_Witness ==
    /\ SearchDone
    /\ ~IsError(result)
    /\ request.user_input = InsuranceGuidelines
    /\ request.target_language = "chinese"
    /\ request.top_k = 3
    /\ result.total_found = 2

\* C13: one call of search_similar_pairs sends at most one request to the
\* embedding endpoint and at most one ranked query to the store, exactly one
\* of each when it succeeds; a failed embedding call or store query is not
\* tried again.
C13_OneEmbeddingOneQuery ==
    IsSearch =>
        /\ embed_calls <= 1
        /\ store_queries <= 1
        /\ (pc = "done" /\ ~IsError(result))
                => (embed_calls = 1 /\ store_queries = 1)
        /\ exc = "EmbeddingError" => (embed_calls = 1 /\ store_queries = 0)
        /\ exc = "QueryError" => (embed_calls = 1 /\ store_queries = 1)

C13_Witness ==
    SearchDone /\ exc = "QueryError" /\ embed_calls = 1 /\ store_queries = 1

\* C14: the stages of search_similar_pairs run in the order clamp, detect,
\* embed, query, assemble: the embedding call comes after the clamp and the
\* detection, a session or a query only after the embedding call returned a
\* vector, a failed embedding call leaves no session and no query, and no
\* response has both an error message and pairs.
C14_StagesInOrder ==
    IsSearch =>
        /\ pc = "validate" => (detected_lang = None /\ embed_calls = 0)
        /\ pc = "detect" => (top_k = Clamped(request.top_k) /\ embed_calls = 0)
        /\ embed_calls > 0 =>
                (detected_lang \in {"zh", "en"} /\ top_k = Clamped(request.top_k))
        /\ (sessions > 0 \/ store_queries > 0 \/ pc \in {"session", "query"}) =>
                /\ embed_calls = 1
                /\ query_embedding \in QueryEmbeddings
                /\ exc # "EmbeddingError"
        /\ exc = "EmbeddingError" => (sessions = 0 /\ store_queries = 0)
        /\ (pc = "done" /\ IsError(result)) => result.pairs = <<>>
        /\ (pc = "done" /\ ~IsError(result)) => store_queries = 1

C14_Witness ==
    /\ SearchDone
    /\ exc = "EmbeddingError"
    /\ IsError(result)
    /\ sessions = 0
    /\ store_queries = 0
    /\ store # <<>>

\* C15: every row a search returns is assembled with context equal to the
\* row's english_text and with metadata created_at equal to the string form of
\* the row's created_at when the store has a value, and to None when it has
\* none.
C15_ContextAndCreatedAt ==
    (SearchDone /\ ~IsError(result)) =>
        \A i \in 1..Len(result.pairs) :
            LET p == result.pairs[i]
                row == RowOf(p.id)
            IN  /\ p.context = row.english_text
                /\ p.metadata.created_at =
                    (IF row.created_at = None THEN None
                     ELSE str(row.created_at))

\* C11: health_check attempts a round-trip to the store on every call; it
\* returns status "healthy" only when that round-trip succeeded, and status
\* "unhealthy" with an error string when the store is unreachable or the
\* round-trip fails.
IsHealth == request.op = "health_check"
C11_HealthCheckRoundTrip ==
    (IsHealth /\ pc = "done") =>
        /\ exc # "SessionError" => store_queries = 1
        /\ result.status = "healthy" => (store_queries = 1 /\ exc = "none")
        /\ exc # "none" =>
                (result.status = "unhealthy" /\ "error" \in DOMAIN result)

\* C16: every store session opened by an operation of server.py (the search
\* through make_database_request, get_translation_pair, health_check and the
\* two resources) is closed before the operation returns, on the success path
\* and on every failure path: after any sequence of completed operations no
\* session is open.
C16_NoSessionLeftOpen == pc \in {"idle", "done"} => sessions = 0

\* C12: when several search_similar_pairs requests are in flight on the async
\* server, the embedding call and the store query of one request are
\* suspension points: while one request waits on its embedding call or on its
\* store query, a request that waits for the event loop can make progress.
C12_IOIsSuspensionPoint ==
    (IsSearch /\ pc \in {"embed", "query"} /\ pending > 0) => ENABLED CallSearch

====
